---- MODULE Spec2Model ----
(***************************************************************************)
(* Model of the blog content cache of marvinblum.de (package blog of       *)
(* src/main.go, lines 299-455) together with the handlers that read it.    *)
(*                                                                         *)
(* Time is counted in half hours, so blogCacheTime (one hour) is 2.        *)
(* An article body is a sequence of tokens.  A token is plain text or an   *)
(* attribute attr=<quote>value<quote> of the markup, of which the model    *)
(* keeps the name as written, the quote ("dq" or "sq") and the value:      *)
(*   kind "read"     /read/<ref>                                           *)
(*   kind "content"  <remote>/api/v1/content/<ref>                         *)
(*   kind "blog"     /blog/<ref>                                           *)
(*   kind "static"   /static/blog/<art>/<ref>                              *)
(* The remote source publishes articles 1, 2, 3, ... in that order and     *)
(* lists them newest first.                                                *)
(***************************************************************************)
EXTENDS Integers, Sequences, FiniteSets, TLC

(***************************************************************************)
(* Bounds of the model.                                                    *)
(***************************************************************************)
NumArticles == 4      \* articles a source that never fails will publish
FewArticles == 3      \* articles a source that may fail will publish
ConcArticles == 1     \* articles the source of concurrent readers will publish
PageSize == 2         \* page size of the remote listing
MaxTime == 4          \* the clock stops here
ConcTime == 3         \* the same under concurrent readers
MaxFaults == 1        \* failures injected in one behaviour

(***************************************************************************)
(* Program constants.                                                      *)
(***************************************************************************)
blogCacheTime == 2
maxLatestArticles == 3

Threads == {"r1", "r2"}
Ids == 1..NumArticles
NoId == 0                       \* the empty string as an article id
Nil == [nil |-> TRUE]           \* a nil *emvi.ArticleContent

Max(a, b) == IF a > b THEN a ELSE b
Min(a, b) == IF a < b THEN a ELSE b

RECURSIVE Perms(_)
\* all orders in which a Go map with key set S may be iterated
Perms(S) ==
  IF S = {} THEN {<<>>}
  ELSE UNION {{<<k>> \o p : p \in Perms(S \ {k})} : k \in S}

(***************************************************************************)
(* The remote source.                                                      *)
(***************************************************************************)
Token(kind, attr, quote, ref, art) ==
  [kind |-> kind, attr |-> attr, quote |-> quote, ref |-> ref, art |-> art]

Text == Token("text", "", "", "", NoId)
ReadLink(id) == Token("read", "href", "dq", ToString(id), NoId)
ContentRef(name) == Token("content", "src", "dq", name, NoId)
BlogLink(ref) == Token("blog", "href", "dq", ref, NoId)
StaticRef(id, name) == Token("static", "src", "dq", name, id)

\* the body the remote source serves for an article; the third has a link
\* written HREF, and a link and an attachment in single quotes
Body(id) ==
  CASE id = 1 -> <<ContentRef("a"), ReadLink(2), ContentRef("a")>>
    [] id = 2 -> <<ContentRef("b"), Text>>
    [] id = 3 -> <<ReadLink(1), Token("read", "HREF", "dq", "2", NoId),
                   Token("read", "href", "sq", "2", NoId),
                   Token("content", "src", "sq", "a", NoId)>>
    [] OTHER -> <<Text>>

PublishedYear(id) == IF id =< 2 THEN 2019 + id ELSE 2018 + id

\* an article as the listing returns it
Listed(id) ==
  [Id |-> id, Published |-> PublishedYear(id),
   LatestArticleContent |-> [LanguageId |-> "en", Content |-> <<>>]]

\* the zero value of emvi.Article
EmptyArticle == [Id |-> NoId, Published |-> 1, LatestArticleContent |-> Nil]

\* the listing sorted by publication, newest first, of a source with n articles
Listing(n) == [i \in 1..n |-> n + 1 - i]

\* FindArticles with BaseSearch.Offset = off
FindArticles(n, off) ==
  [i \in 1..Max(0, Min(PageSize, n - off)) |-> Listed(Listing(n)[off + i])]

(***************************************************************************)
(* Go maps and the regular expressions.                                    *)
(***************************************************************************)
EmptyMap == <<>>

\* the same with a stub of the requested id for a missing key
MapLookupStub(m, k) ==
  IF k \in DOMAIN m THEN m[k] ELSE [EmptyArticle EXCEPT !.Id = k]

\* m[k] of a Go map: the zero value for a missing key
MapLookup(m, k) == IF k \in DOMAIN m THEN m[k] ELSE EmptyArticle

MapSet(m, k, v) == [x \in (DOMAIN m) \cup {k} |-> IF x = k THEN v ELSE m[x]]

RECURSIVE MapSetAll(_, _)
\* for _, article := range results { articles[article.Id] = article }
MapSetAll(m, results) ==
  IF results = <<>> THEN m
  ELSE MapSetAll(MapSet(m, Head(results).Id, Head(results)), Tail(results))

\* the flag i of the regular expressions, on the attribute names of the model
Lower(attr) ==
  CASE attr = "HREF" -> "href"
    [] attr = "SRC" -> "src"
    [] OTHER -> attr

\* the same matching the attribute name as written
LinkMatchesCase(tok) ==
  tok.kind = "read" /\ tok.attr = "href" /\ tok.quote = "dq" /\ tok.ref # ""

\* linkRegex matches the token: (?iU)href="/read/([^"]+)"
LinkMatches(tok) ==
  tok.kind = "read" /\ Lower(tok.attr) = "href" /\ tok.quote = "dq"
  /\ tok.ref # ""

\* attachmentRegex matches the token:
\* (?iU)(href|src)="([^"]+)/api/v1/content/([^"]+)"
AttachmentMatches(tok) ==
  tok.kind = "content" /\ Lower(tok.attr) \in {"href", "src"}
  /\ tok.quote = "dq" /\ tok.ref # ""

\* linkRegex.ReplaceAllString(content, `href="/blog/$1"`)
ReplaceLinks(content) ==
  [i \in DOMAIN content |->
     IF LinkMatches(content[i]) THEN BlogLink(content[i].ref) ELSE content[i]]

\* the same without the directory of the article in the path
ReplaceAttachmentsFlat(id, content) ==
  [i \in DOMAIN content |->
     IF AttachmentMatches(content[i])
     THEN [content[i] EXCEPT !.kind = "static", !.art = NoId]
     ELSE content[i]]

\* attachmentRegex.ReplaceAllString(content, `$1="/static/blog/<id>/$3"`)
ReplaceAttachments(id, content) ==
  [i \in DOMAIN content |->
     IF AttachmentMatches(content[i])
     THEN [content[i] EXCEPT !.kind = "static", !.art = id]
     ELSE content[i]]

\* attachmentURLRegex matches the token:
\* (?iU)(href|src)="([^"]+/api/v1/content/)([^"]+)"
IsContentRef(tok) ==
  tok.kind = "content" /\ Lower(tok.attr) \in {"href", "src"}
  /\ tok.quote = "dq" /\ tok.ref # ""

\* attachmentURLRegex.FindAllStringSubmatch(content, -1), the names matched
FindAttachments(content) ==
  LET m == SelectSeq(content, IsContentRef) IN [i \in DOMAIN m |-> m[i].ref]

\* the same with the bucket assigned instead of appended to
YearAssign(ym, article) ==
  LET y == article.Published IN
  [x \in (DOMAIN ym) \cup {y} |-> IF x = y THEN <<article>> ELSE ym[x]]

\* the year-index after append(blog.articlesYear[year], article)
YearAppend(ym, article) ==
  LET y == article.Published IN
  [x \in (DOMAIN ym) \cup {y} |->
     IF x = y THEN Append(IF y \in DOMAIN ym THEN ym[y] ELSE <<>>, article)
     ELSE ym[x]]

(***************************************************************************)
(* State.                                                                  *)
(***************************************************************************)
VARIABLES
  articles,      \* Blog.articles: id -> article
  articlesYear,  \* Blog.articlesYear: year -> articles
  nextUpdate,    \* Blog.nextUpdate
  started,       \* NewBlog has returned
  now,           \* time.Now()
  remote,        \* number of articles the source has published
  maxRemote,     \* number of articles the source will ever publish
  dirs,          \* article ids with a directory under static/blog
  files,         \* <<id, name>> of the attachment files on disk
  faults,        \* failures injected so far
  pc,            \* per thread: the statement it is at
  larticles,     \* per thread: the local map `articles` of loadArticles
  offset,        \* per thread: local of loadArticles
  count,         \* per thread: local of loadArticles
  err,           \* per thread: local of loadArticles, err != nil
  todo,          \* per thread: keys the current range loop has yet to visit
  cmp,           \* per thread: time.Now() against nextUpdate at the last check
  refreshes,     \* per thread: executions of loadArticles in the current call
  netcalls,      \* per thread: network requests made in the current call
  gets,          \* per thread: http.Get calls per attachment in its refresh
  again,         \* per thread: attachments fetched though present on disk
  cfail,         \* per thread: ids whose content fetch failed in its refresh
  before,        \* per thread: the indexes when its refresh started, kept
                 \* after the refresh when it failed
  lastStart,     \* the time the most recent refresh started
  view,          \* per thread: the live indexes at its return statement
  result,        \* per thread: what the read returned
  afail,         \* per thread: ids an attachment of which failed in its refresh
  dfail,         \* per thread: ids whose directory os.MkdirAll did not create
  rstart,        \* per thread: the articles of the source when its listing
                 \* loop started, while it is in that loop
  boot           \* the refresh of NewBlog, until the first read has returned

blogVars == <<articles, articlesYear, nextUpdate, started>>
envVars == <<now, remote, maxRemote, dirs, files, faults>>
localVars == <<pc, larticles, offset, count, err, todo>>
obsVars == <<cmp, refreshes, netcalls, gets, again, cfail, before,
             lastStart, view, result>>
histVars == <<afail, dfail, rstart, boot>>
vars == <<blogVars, envVars, localVars, obsVars, histVars>>

Names == {"a", "b"}
NoGets == [r \in Ids \X Names |-> 0]
Indexes == [ids |-> articles, years |-> articlesYear]
NoIndexes == [ids |-> EmptyMap, years |-> EmptyMap]
BootOver == [state |-> "over", remote0 |-> 0, ok |-> FALSE]
NoResult ==
  [kind |-> "none", id |-> NoId, article |-> EmptyArticle, years |-> EmptyMap,
   latest |-> <<>>]

(***************************************************************************)
(* NewBlog up to its call of loadArticles: thread r1 constructs the blog,  *)
(* the handlers are served once it has returned.                           *)
(***************************************************************************)
InitCommon ==
  /\ articles = EmptyMap
  /\ articlesYear = EmptyMap
  /\ now = 0
  /\ nextUpdate = now + blogCacheTime
  /\ started = FALSE
  /\ dirs = {}
  /\ files = {}
  /\ larticles = [t \in Threads |-> EmptyMap]
  /\ offset = [t \in Threads |-> 0]
  /\ count = [t \in Threads |-> IF t = "r1" THEN 1 ELSE 0]
  /\ err = [t \in Threads |-> FALSE]
  /\ todo = [t \in Threads |-> {}]
  /\ cmp = [t \in Threads |-> "none"]
  /\ refreshes = [t \in Threads |-> IF t = "r1" THEN 1 ELSE 0]
  /\ netcalls = [t \in Threads |-> 0]
  /\ gets = [t \in Threads |-> NoGets]
  /\ again = [t \in Threads |-> {}]
  /\ cfail = [t \in Threads |-> {}]
  /\ before = [t \in Threads |-> NoIndexes]
  /\ lastStart = now
  /\ view = [t \in Threads |-> NoIndexes]
  /\ result = [t \in Threads |-> NoResult]
  /\ afail = [t \in Threads |-> {}]
  /\ dfail = [t \in Threads |-> {}]
  /\ rstart = [t \in Threads |-> IF t = "r1" THEN remote ELSE 0]
  /\ boot = [state |-> "new", remote0 |-> remote, ok |-> FALSE]

\* the same returning without the refresh
NewBlogNoCall == "finish"

\* NewBlog: b.loadArticles()
NewBlogCall == "load"

\* a single reader of a source of few articles where up to MaxFaults calls
\* fail, or of a source of more articles where none does
Init ==
  /\ \/ maxRemote = FewArticles /\ faults = 0
     \/ maxRemote = NumArticles /\ faults = MaxFaults
  /\ remote \in 0..maxRemote
  /\ pc = [t \in Threads |-> IF t = "r1" THEN NewBlogCall ELSE "off"]
  /\ InitCommon

\* two concurrent readers of a source and a disk that do not fail
InitConc ==
  /\ maxRemote = ConcArticles
  /\ remote \in 0..maxRemote
  /\ faults = MaxFaults
  /\ pc = [t \in Threads |-> IF t = "r1" THEN NewBlogCall ELSE "idle"]
  /\ InitCommon

(***************************************************************************)
(* loadArticle and downloadAttachments.  The outcome of the remote calls   *)
(* and of the file system is an input o:                                   *)
(*   o.content  client.GetArticle          "ok" | "err"                   *)
(*   o.mkdir    os.MkdirAll                "ok" | "err"                   *)
(*   o.att[i]   the i-th attachment matched                                *)
(*              "ok" | "get" | "read" | "write" (the call that failed)     *)
(***************************************************************************)
AttOutcome == {"ok", "get", "read", "write"}

RECURSIVE MirrorBreak(_, _, _, _)
\* the same leaving the loop at the first attachment that fails
MirrorBreak(id, names, outs, acc) ==
  IF names = <<>> THEN acc
  ELSE LET f == <<id, Head(names)>>
           next == [files |-> IF Head(outs) = "ok" THEN acc.files \cup {f}
                              ELSE acc.files,
                    again |-> IF f \in acc.files THEN acc.again \cup {f}
                              ELSE acc.again,
                    fetched |-> Append(acc.fetched, Head(names))]
       IN IF Head(outs) # "ok" THEN next
          ELSE MirrorBreak(id, Tail(names), Tail(outs), next)

RECURSIVE Mirror(_, _, _, _)
\* the loop of downloadAttachments over the matches: the files on disk, the
\* matches fetched while their file was already there, and the matches
\* http.Get was called for
Mirror(id, names, outs, acc) ==
  IF names = <<>> THEN acc
  ELSE LET f == <<id, Head(names)>> IN
       Mirror(id, Tail(names), Tail(outs),
              [files |-> IF Head(outs) = "ok" THEN acc.files \cup {f}
                         ELSE acc.files,
               again |-> IF f \in acc.files THEN acc.again \cup {f}
                         ELSE acc.again,
               fetched |-> Append(acc.fetched, Head(names))])

\* the number of http.Get calls for attachment name
Fetches(names, name) == Cardinality({i \in DOMAIN names : names[i] = name})

\* the same going on to the attachments when the directory is not created
DownloadAttachmentsNoReturn(id, content, o, d, f) ==
  LET names == FindAttachments(content)
      m == Mirror(id, names, o.att,
                  [files |-> f, again |-> {}, fetched |-> <<>>])
  IN [dirs |-> IF o.mkdir = "err" THEN d ELSE d \cup {id},
      files |-> m.files, again |-> m.again, fetched |-> m.fetched]

DownloadAttachments(id, content, o, d, f) ==
  IF id \notin d /\ o.mkdir = "err"
  THEN [dirs |-> d, files |-> f, again |-> {}, fetched |-> <<>>]
  ELSE LET names == FindAttachments(content)
           m == Mirror(id, names, o.att,
                       [files |-> f, again |-> {}, fetched |-> <<>>])
       IN [dirs |-> d \cup {id}, files |-> m.files, again |-> m.again,
           fetched |-> m.fetched]

\* the content loadArticle returns
LoadArticle(id, o) ==
  IF o.content = "err" THEN Nil
  ELSE [LanguageId |-> "en",
        Content |-> ReplaceAttachments(id, ReplaceLinks(Body(id)))]

\* the outcomes possible for article id when the directories d exist
Outcomes(id, d) ==
  LET n == Len(FindAttachments(Body(id))) IN
  {o \in [content : {"ok", "err"}, mkdir : {"ok", "err"},
          att : [1..n -> AttOutcome]] :
     /\ o.content = "err" => o.mkdir = "ok"
     /\ id \in d => o.mkdir = "ok"
     /\ (o.content = "err" \/ o.mkdir = "err") =>
          \A i \in 1..n : o.att[i] = "ok"}

Failures(o) ==
  (IF o.content = "err" THEN 1 ELSE 0) + (IF o.mkdir = "err" THEN 1 ELSE 0)
  + Cardinality({i \in DOMAIN o.att : o.att[i] # "ok"})

(***************************************************************************)
(* The decisions of the code.                                              *)
(***************************************************************************)
\* the same with the deadline itself counted as passed
RefreshDueAt(deadline, t) == deadline =< t

\* refreshIfRequired: blog.nextUpdate.Before(time.Now())
RefreshDue(deadline, t) == deadline < t

\* the same without the test of err
AfterListingNoTest(e, m) ==
  IF DOMAIN m = {} THEN "set" ELSE "content"

\* loadArticles after the listing loop: `if err == nil { ... setArticles }`
AfterListing(e, m) ==
  IF e THEN "finish" ELSE IF DOMAIN m = {} THEN "set" ELSE "content"

\* the same with the loop left at the first article that failed
RemainingUntilError(keys, k, ok) == IF ok THEN keys \ {k} ELSE {}

\* the keys the loop over the articles has left after visiting k
Remaining(keys, k, ok) == keys \ {k}

\* the same without the cache time added
DeadlineNow(t) == t

\* loadArticles: blog.nextUpdate = time.Now().Add(blogCacheTime)
Deadline(t) == t + blogCacheTime

\* the same setting the offset to the size of the page
NextOffsetAssign(off, n) == n

\* the listing loop of loadArticles: offset += len(results)
NextOffset(off, n) == off + n

\* the same keeping the year index of the refresh before
KeepYears(years) == years

\* setArticles: blog.articlesYear = make(map[int][]emvi.Article)
FreshYears(years) == EmptyMap

Compare(t, deadline) ==
  IF t < deadline THEN "before" ELSE IF t = deadline THEN "at" ELSE "after"

(***************************************************************************)
(* Actions.                                                                *)
(***************************************************************************)
Upd(f, t, v) == [f EXCEPT ![t] = v]

\* the first statement of loadArticles
StartLoad(t) ==
  /\ larticles' = Upd(larticles, t, EmptyMap)
  /\ offset' = Upd(offset, t, 0)
  /\ count' = Upd(count, t, 1)
  /\ err' = Upd(err, t, FALSE)
  /\ todo' = Upd(todo, t, {})
  /\ gets' = Upd(gets, t, NoGets)
  /\ again' = Upd(again, t, {})
  /\ cfail' = Upd(cfail, t, {})
  /\ before' = Upd(before, t, Indexes)
  /\ lastStart' = now
  /\ afail' = Upd(afail, t, {})
  /\ dfail' = Upd(dfail, t, {})
  /\ rstart' = Upd(rstart, t, remote)
  /\ boot' = BootOver

\* the entry of GetArticle, GetArticles and GetLatestArticles
RefreshIfRequired(t) ==
  /\ pc[t] = "idle"
  /\ started
  /\ cmp' = Upd(cmp, t, Compare(now, nextUpdate))
  /\ netcalls' = Upd(netcalls, t, 0)
  /\ IF RefreshDue(nextUpdate, now)
     THEN /\ pc' = Upd(pc, t, "load")
          /\ refreshes' = Upd(refreshes, t, 1)
          /\ StartLoad(t)
     ELSE /\ pc' = Upd(pc, t, "ret")
          /\ refreshes' = Upd(refreshes, t, 0)
          /\ UNCHANGED <<larticles, offset, count, err, todo, gets, again,
                         cfail, before, lastStart, histVars>>
  /\ UNCHANGED <<blogVars, envVars, view, result>>

\* one iteration of the listing loop of loadArticles
ListPage(t) ==
  /\ pc[t] = "load"
  /\ count[t] > 0
  /\ \E ok \in BOOLEAN :
       /\ ~ok => faults < MaxFaults
       /\ faults' = IF ok THEN faults ELSE faults + 1
       /\ LET results == IF ok THEN FindArticles(remote, offset[t]) ELSE <<>>
              m == MapSetAll(larticles[t], results)
          IN /\ err' = Upd(err, t, ~ok)
             /\ offset' = Upd(offset, t, NextOffset(offset[t], Len(results)))
             /\ count' = Upd(count, t, IF ok THEN Len(results) ELSE count[t])
             /\ larticles' = Upd(larticles, t, m)
             /\ todo' = Upd(todo, t, IF ok /\ Len(results) > 0 THEN {}
                                     ELSE DOMAIN m)
             /\ pc' = Upd(pc, t, IF ok /\ Len(results) > 0 THEN "load"
                                 ELSE AfterListing(~ok, m))
             /\ rstart' = Upd(rstart, t, IF ok /\ Len(results) > 0
                                         THEN rstart[t] ELSE 0)
  /\ netcalls' = Upd(netcalls, t, netcalls[t] + 1)
  /\ UNCHANGED <<blogVars, now, remote, maxRemote, dirs, files>>
  /\ UNCHANGED <<cmp, refreshes, gets, again, cfail, before, lastStart,
                 view, result, afail, dfail, boot>>

\* one iteration of `for k, v := range articles` of loadArticles
LoadContent(t) ==
  /\ pc[t] = "content"
  /\ \E k \in todo[t] : \E o \in Outcomes(k, dirs) :
       /\ faults + Failures(o) =< MaxFaults
       /\ faults' = faults + Failures(o)
       /\ LET c == LoadArticle(k, o)
              d == IF o.content = "err"
                   THEN [dirs |-> dirs, files |-> files, again |-> {},
                         fetched |-> <<>>]
                   ELSE DownloadAttachments(k, Body(k), o, dirs, files)
              left == Remaining(todo[t], k, o.content = "ok")
          IN /\ larticles' = Upd(larticles, t,
                  MapSet(larticles[t], k,
                         [larticles[t][k] EXCEPT !.LatestArticleContent = c]))
             /\ dirs' = d.dirs
             /\ files' = d.files
             /\ again' = Upd(again, t, again[t] \cup d.again)
             /\ gets' = Upd(gets, t,
                  [r \in DOMAIN gets[t] |->
                     IF r[1] = k THEN gets[t][r] + Fetches(d.fetched, r[2])
                     ELSE gets[t][r]])
             /\ cfail' = Upd(cfail, t, IF o.content = "err"
                                       THEN cfail[t] \cup {k} ELSE cfail[t])
             /\ dfail' = Upd(dfail, t, IF o.mkdir = "err"
                                       THEN dfail[t] \cup {k} ELSE dfail[t])
             /\ afail' = Upd(afail, t,
                             IF \E i \in DOMAIN o.att : o.att[i] # "ok"
                             THEN afail[t] \cup {k} ELSE afail[t])
             /\ netcalls' = Upd(netcalls, t,
                                netcalls[t] + 1 + Len(d.fetched))
             /\ todo' = Upd(todo, t, left)
             /\ pc' = Upd(pc, t, IF left = {} THEN "set" ELSE "content")
  /\ UNCHANGED <<blogVars, now, remote, maxRemote, offset, count, err>>
  /\ UNCHANGED <<cmp, refreshes, before, lastStart, view, result, rstart,
                 boot>>

\* setArticles: blog.articles = articles
SetArticles(t) ==
  /\ pc[t] = "set"
  /\ articles' = larticles[t]
  /\ pc' = Upd(pc, t, "make")
  /\ UNCHANGED <<articlesYear, nextUpdate, started, envVars, obsVars,
                 histVars>>
  /\ UNCHANGED <<larticles, offset, count, err, todo>>

\* setArticles: blog.articlesYear = make(map[int][]emvi.Article)
MakeYears(t) ==
  /\ pc[t] = "make"
  /\ articlesYear' = FreshYears(articlesYear)
  /\ todo' = Upd(todo, t, DOMAIN larticles[t])
  /\ pc' = Upd(pc, t, IF DOMAIN larticles[t] = {} THEN "finish" ELSE "append")
  /\ UNCHANGED <<articles, nextUpdate, started, envVars, obsVars, histVars>>
  /\ UNCHANGED <<larticles, offset, count, err>>

\* setArticles: one iteration of `for _, article := range articles`
AppendYear(t) ==
  /\ pc[t] = "append"
  /\ \E k \in todo[t] :
       /\ articlesYear' = YearAppend(articlesYear, larticles[t][k])
       /\ todo' = Upd(todo, t, todo[t] \ {k})
       /\ pc' = Upd(pc, t, IF todo[t] = {k} THEN "finish" ELSE "append")
  /\ UNCHANGED <<articles, nextUpdate, started, envVars, obsVars, histVars>>
  /\ UNCHANGED <<larticles, offset, count, err>>

\* the end of loadArticles, and of NewBlog when it is the caller
FinishLoad(t) ==
  /\ pc[t] = "finish"
  /\ nextUpdate' = Deadline(now)
  /\ started' = TRUE
  /\ pc' = Upd(pc, t, IF started THEN "ret" ELSE "idle")
  /\ larticles' = Upd(larticles, t, EmptyMap)
  /\ offset' = Upd(offset, t, 0)
  /\ count' = Upd(count, t, 0)
  /\ todo' = Upd(todo, t, {})
  /\ gets' = Upd(gets, t, NoGets)
  /\ again' = Upd(again, t, {})
  /\ cfail' = Upd(cfail, t, {})
  /\ err' = IF started THEN err ELSE Upd(err, t, FALSE)
  /\ before' = IF started /\ err[t] THEN before ELSE Upd(before, t, NoIndexes)
  /\ refreshes' = IF started THEN refreshes ELSE Upd(refreshes, t, 0)
  /\ netcalls' = IF started THEN netcalls ELSE Upd(netcalls, t, 0)
  /\ afail' = Upd(afail, t, {})
  /\ dfail' = Upd(dfail, t, {})
  /\ rstart' = Upd(rstart, t, 0)
  /\ boot' = IF started THEN boot
             ELSE [state |-> "fresh", remote0 |-> boot.remote0,
                   ok |-> ~err[t]]
  /\ UNCHANGED <<articles, articlesYear, envVars>>
  /\ UNCHANGED <<cmp, lastStart, view, result>>

\* GetLatestArticles: `if i > maxLatestArticles { break }`
Break(i) == i > maxLatestArticles

RECURSIVE LatestLoop(_, _, _, _)
\* GetLatestArticles: the loop over blog.articles, visited in the given order
LatestLoop(m, order, acc, i) ==
  IF order = <<>> THEN acc
  ELSE LET next == Append(acc, m[Head(order)]) IN
       IF Break(i + 1) THEN next
       ELSE LatestLoop(m, Tail(order), next, i + 1)

\* the return statement of a read and what the caller then holds
Return(t, r) ==
  /\ pc' = Upd(pc, t, "done")
  /\ view' = Upd(view, t, Indexes)
  /\ result' = Upd(result, t, r)
  /\ UNCHANGED <<blogVars, envVars>>
  /\ UNCHANGED <<larticles, offset, count, err, todo>>
  /\ UNCHANGED <<cmp, refreshes, netcalls, gets, again, cfail, before,
                 lastStart, histVars>>

QueryIds == {1, 2, NumArticles + 1}

\* GetArticle after refreshIfRequired: return blog.articles[id]
GetArticle(t) ==
  /\ pc[t] = "ret"
  /\ \E id \in QueryIds :
       Return(t, [kind |-> "GetArticle", id |-> id,
                  article |-> MapLookup(articles, id),
                  years |-> EmptyMap, latest |-> <<>>])

\* GetArticles after refreshIfRequired: return blog.articlesYear
GetArticles(t) ==
  /\ pc[t] = "ret"
  /\ Return(t, [kind |-> "GetArticles", id |-> NoId,
                article |-> EmptyArticle, years |-> articlesYear,
                latest |-> <<>>])

\* The slice GetLatestArticles returns, as the caller of this model holds it:
\* how often each article is in it.  The order of the slice is the order of
\* the map iteration, which no caller can rely on.
Returned(slice) ==
  [a \in {slice[i] : i \in DOMAIN slice} |->
     Cardinality({i \in DOMAIN slice : slice[i] = a})]

AllOrders == Perms(Ids)

\* the orders in which `range m` may visit the keys of m
Orders(m) == {SelectSeq(p, LAMBDA k : k \in DOMAIN m) : p \in AllOrders}

\* GetLatestArticles after refreshIfRequired
GetLatestArticles(t) ==
  /\ pc[t] = "ret"
  /\ \E order \in Orders(articles) :
       Return(t, [kind |-> "GetLatestArticles", id |-> NoId,
                  article |-> EmptyArticle, years |-> EmptyMap,
                  latest |-> Returned(LatestLoop(articles, order, <<>>, 0))])

\* the handler has rendered its response; the thread serves the next request
Served(t) ==
  /\ pc[t] = "done"
  /\ pc' = Upd(pc, t, "idle")
  /\ err' = Upd(err, t, FALSE)
  /\ cmp' = Upd(cmp, t, "none")
  /\ refreshes' = Upd(refreshes, t, 0)
  /\ netcalls' = Upd(netcalls, t, 0)
  /\ before' = Upd(before, t, NoIndexes)
  /\ view' = Upd(view, t, NoIndexes)
  /\ result' = Upd(result, t, NoResult)
  /\ UNCHANGED <<blogVars, envVars>>
  /\ boot' = BootOver
  /\ UNCHANGED <<larticles, offset, count, todo, gets, again, cfail, lastStart,
                 afail, dfail, rstart>>

\* no thread but the one that constructs the blog
Single == pc["r2"] = "off"

\* time passes
Tick ==
  /\ now < (IF Single THEN MaxTime ELSE ConcTime)
  /\ now' = now + 1
  /\ UNCHANGED <<blogVars, remote, maxRemote, dirs, files, faults>>
  /\ UNCHANGED <<localVars, obsVars, histVars>>

\* the author publishes the next article
Publish ==
  /\ remote < maxRemote
  /\ remote' = remote + 1
  /\ UNCHANGED <<blogVars, now, maxRemote, dirs, files, faults>>
  /\ UNCHANGED <<localVars, obsVars, histVars>>

Next ==
  \/ \E t \in Threads :
       \/ RefreshIfRequired(t)
       \/ ListPage(t)
       \/ LoadContent(t)
       \/ SetArticles(t)
       \/ MakeYears(t)
       \/ AppendYear(t)
       \/ FinishLoad(t)
       \/ GetArticle(t)
       \/ GetArticles(t)
       \/ GetLatestArticles(t)
       \/ Served(t)
  \/ Tick
  \/ Publish

Spec == Init /\ [][Next]_vars
SpecConc == InitConc /\ [][Next]_vars

(***************************************************************************)
(* Properties.                                                             *)
(***************************************************************************)
Range(f) == {f[x] : x \in DOMAIN f}

\* a thread is inside loadArticles
InLoad(t) == pc[t] \in {"load", "content", "set", "make", "append", "finish"}

\* a thread is inside setArticles, past the assignment of blog.articles
InSet(t) == pc[t] \in {"make", "append"}

\* the number of times the article with id k is in bucket y of a year-index
Occurs(years, y, k) ==
  IF y \in DOMAIN years
  THEN Cardinality({i \in DOMAIN years[y] : years[y][i].Id = k})
  ELSE 0

\* every article of the id-index is once in the bucket of its year and in no
\* other, and the year-index holds nothing else
Consistent(ids, years) ==
  /\ \A k \in DOMAIN ids :
       /\ Occurs(years, ids[k].Published, k) = 1
       /\ \A y \in DOMAIN years : y # ids[k].Published => Occurs(years, y, k) = 0
  /\ \A y \in DOMAIN years : \A i \in DOMAIN years[y] :
       /\ years[y][i].Id \in DOMAIN ids
       /\ years[y][i] = ids[years[y][i].Id]

\* what a read returned is taken from the indexes idx
ReadFrom(r, idx) ==
  /\ r.kind = "GetArticle" => r.article = MapLookup(idx.ids, r.id)
  /\ r.kind = "GetArticles" => r.years = idx.years
  /\ r.kind = "GetLatestArticles" => DOMAIN r.latest \subseteq Range(idx.ids)

\* C1: when a page of the listing fails in a refresh, also after earlier pages
\* of it succeeded, both indexes stay what they were when the refresh started,
\* and the read that follows returns from those indexes.
C1_StaleServe ==
  \A t \in Threads :
    err[t] =>
      /\ Indexes = before[t]
      /\ pc[t] = "done" => view[t] = before[t] /\ ReadFrom(result[t], before[t])

\* a read after a refresh that failed on its second page, the source having
\* published an article the previous index does not hold
C1_Witness ==
  \E t \in Threads :
    /\ err[t]
    /\ pc[t] = "done"
    /\ netcalls[t] >= 2
    /\ DOMAIN before[t].ids # {}
    /\ remote > Cardinality(DOMAIN before[t].ids)

\* C2: whatever a reader sees of the two indexes is a pair a completed refresh
\* built: the year-index it sees is complete for the id-index it sees.
C2_NoHalfBuiltIndex ==
  \A t \in Threads :
    pc[t] = "done" => Consistent(view[t].ids, view[t].years)

\* C3: with refreshes that do not overlap, outside setArticles every article of
\* the id-index is exactly once in the year-index, in the bucket of its year,
\* and the year-index holds no other article.
C3_IndexConsistency ==
  (\A t \in Threads : ~InSet(t)) => Consistent(articles, articlesYear)

\* after a second refresh: three articles indexed, two of them of one year
C3_Witness ==
  /\ lastStart > 0
  /\ pc["r1"] = "ret"
  /\ Cardinality(DOMAIN articles) >= 3
  /\ \E y \in DOMAIN articlesYear : Len(articlesYear[y]) >= 2

\* C4: no two threads are inside loadArticles at once.
C4_OneRefreshAtATime ==
  Cardinality({t \in Threads : InLoad(t)}) =< 1

\* C5 as stated: a read before the deadline makes no network call and starts no
\* refresh, a read at the deadline or after it runs loadArticles exactly once.
C5_DeadlineAtOrAfter ==
  \A t \in Threads :
    pc[t] \in {"ret", "done"} =>
      /\ cmp[t] = "before" => netcalls[t] = 0 /\ refreshes[t] = 0
      /\ cmp[t] \in {"at", "after"} => refreshes[t] = 1

\* C5 amended: a read at a time before or equal to the deadline makes no
\* network call and starts no refresh, a read at a time strictly after the
\* deadline runs loadArticles exactly once.
C5_DeadlineStrictlyAfter ==
  \A t \in Threads :
    pc[t] \in {"ret", "done"} =>
      /\ cmp[t] \in {"before", "at"} => netcalls[t] = 0 /\ refreshes[t] = 0
      /\ cmp[t] = "after" => refreshes[t] = 1 /\ netcalls[t] >= 1

\* a read at the very time of the deadline has returned
C5_Witness ==
  \E t \in Threads : pc[t] = "done" /\ cmp[t] = "at" /\ now = nextUpdate

\* C6: the step that ends a refresh, failed or not, sets nextUpdate to the
\* current time plus blogCacheTime, and a refresh starts no sooner than
\* blogCacheTime after the start of the one before it.
C6_RefreshSpacing ==
  [][/\ \A t \in Threads :
          (pc[t] = "finish" /\ pc'[t] # "finish") =>
            nextUpdate' = now + blogCacheTime
     /\ \A t \in Threads :
          (~InLoad(t) /\ InLoad(t)') => now - lastStart >= blogCacheTime]_vars

\* a refresh on demand that failed has ended and set the deadline
C6_Witness ==
  \E t \in Threads :
    /\ pc[t] = "ret"
    /\ err[t]
    /\ lastStart > 0
    /\ nextUpdate = now + blogCacheTime

\* the content of article k as ingestion leaves it: every double-quoted link
\* and attachment reference of the body rewritten, the rest untouched
Ingested(k, c) ==
  /\ c # Nil
  /\ Len(c.Content) = Len(Body(k))
  /\ \A i \in DOMAIN Body(k) :
       LET tok == Body(k)[i] IN
       c.Content[i] =
         CASE tok.kind = "read" /\ tok.attr \in {"href", "HREF"}
              /\ tok.quote = "dq" ->
                Token("blog", "href", "dq", tok.ref, NoId)
           [] tok.kind = "content" /\ tok.attr \in {"href", "HREF", "src", "SRC"}
              /\ tok.quote = "dq" ->
                Token("static", tok.attr, "dq", tok.ref, k)
           [] OTHER -> tok

\* C7: when setArticles has run in a refresh, every listed article is in both
\* indexes, and each one whose own content fetch did not fail carries its
\* fetched and rewritten content, whatever happened to the other articles.
C7_FailureIsolation ==
  \A t \in Threads :
    (pc[t] = "finish" /\ ~err[t]) =>
      \A k \in DOMAIN larticles[t] :
        /\ k \in DOMAIN articles
        /\ Occurs(articlesYear, articles[k].Published, k) = 1
        /\ k \notin cfail[t] =>
             /\ Ingested(k, articles[k].LatestArticleContent)
             /\ articles[k] \in Range(articlesYear[articles[k].Published])

\* a refresh of three or more articles has published, one content fetch failed
C7_Witness ==
  \E t \in Threads :
    /\ pc[t] = "finish"
    /\ ~err[t]
    /\ Cardinality(cfail[t]) = 1
    /\ Cardinality(DOMAIN articles) >= 3

\* C8: every read returns a value taken from the live indexes, and GetArticle
\* of an id the id-index does not hold returns the empty article.
C8_NoErrorToReader ==
  \A t \in Threads :
    pc[t] = "done" =>
      /\ result[t].kind \in {"GetArticle", "GetArticles", "GetLatestArticles"}
      /\ ReadFrom(result[t], view[t])
      /\ (result[t].kind = "GetArticle" /\ result[t].id \notin DOMAIN view[t].ids)
           => result[t].article = EmptyArticle /\ result[t].article.Id = NoId

\* GetArticle of an unknown id has returned after a refresh that failed
C8_Witness ==
  \E t \in Threads :
    /\ pc[t] = "done"
    /\ err[t]
    /\ result[t].kind = "GetArticle"
    /\ result[t].id \notin DOMAIN view[t].ids
    /\ DOMAIN view[t].ids # {}

RECURSIVE Sum(_, _)
Sum(f, S) ==
  IF S = {} THEN 0
  ELSE LET x == CHOOSE x \in S : TRUE IN f[x] + Sum(f, S \ {x})

\* the length of a returned slice
Size(r) == Sum(r, DOMAIN r)

\* C9: GetLatestArticles returns at most maxLatestArticles articles, each one
\* of the id-index, none twice.
C9_LatestAtMostMax ==
  \A t \in Threads :
    (pc[t] = "done" /\ result[t].kind = "GetLatestArticles") =>
      LET r == result[t].latest IN
      /\ Size(r) =< Min(Cardinality(DOMAIN view[t].ids), maxLatestArticles)
      /\ DOMAIN r \subseteq Range(view[t].ids)
      /\ \A a \in DOMAIN r : r[a] = 1

\* C10: in a refresh that has published, every attachment matched in an
\* article whose directory exists was requested exactly once, and none was
\* requested while its file was on disk.
C10_DownloadOnce ==
  \A t \in Threads :
    (pc[t] = "finish" /\ ~err[t]) =>
      /\ again[t] = {}
      /\ \A k \in (DOMAIN larticles[t]) \ cfail[t] :
           k \in dirs =>
             \A i \in DOMAIN FindAttachments(Body(k)) :
               gets[t][<<k, FindAttachments(Body(k))[i]>>] = 1


\* thread t has completed a refresh on demand that found the source as the
\* refresh before it did: the same listing, and the same articles without
\* content
SameSource(t) ==
  /\ pc[t] = "finish" /\ started /\ ~err[t]
  /\ DOMAIN larticles[t] = DOMAIN before[t].ids
  /\ cfail[t] = {k \in DOMAIN before[t].ids :
                   before[t].ids[k].LatestArticleContent = Nil}

\* C11 as stated: a successful refresh of an unchanged source leaves both
\* indexes exactly as the refresh before it left them, the order of the
\* articles of a year included
C11_IdenticalIndexes ==
  \A t \in Threads : SameSource(t) => Indexes = before[t]

\* C11 amended: a successful refresh of an unchanged source leaves the id
\* index as it was, and in the year index the same years with the same
\* articles, each once as before, in an order that may differ
C11_IdenticalUpToOrder ==
  \A t \in Threads :
    SameSource(t) =>
      /\ articles = before[t].ids
      /\ DOMAIN articlesYear = DOMAIN before[t].years
      /\ \A y \in DOMAIN articlesYear :
           Returned(articlesYear[y]) = Returned(before[t].years[y])

\* a second refresh has found the same three articles, two of one year
C11_Witness ==
  \E t \in Threads :
    /\ SameSource(t)
    /\ DOMAIN larticles[t] = {1, 2, 3}
    /\ \E y \in DOMAIN articlesYear : Len(articlesYear[y]) = 2


\* how often the body of article k refers to attachment name
Matched(k, name) == Fetches(FindAttachments(Body(k)), name)

\* thread t has published article k with the content ingestion gives it
Published(t, k) ==
  /\ k \in DOMAIN articles
  /\ articles[k] = larticles[t][k]
  /\ Ingested(k, articles[k].LatestArticleContent)
  /\ Occurs(articlesYear, articles[k].Published, k) = 1

\* C12: when a refresh has published and the download, read or write of an
\* attachment of article k failed in it, every attachment matched in k was
\* requested, k is published with its rewritten content, and so is every
\* other listed article whose content was fetched.
C12_AttachmentFailureSkipped ==
  \A t \in Threads :
    (pc[t] = "finish" /\ ~err[t]) =>
      \A k \in afail[t] :
        /\ \A name \in Names : gets[t][<<k, name>>] = Matched(k, name)
        /\ Published(t, k)
        /\ DOMAIN articles = DOMAIN larticles[t]
        /\ \A j \in (DOMAIN larticles[t]) \ cfail[t] : Published(t, j)

\* a refresh of two or more articles has published, one of the two
\* attachments of article 1 failed and both were requested
C12_Witness ==
  \E t \in Threads :
    /\ pc[t] = "finish"
    /\ ~err[t]
    /\ afail[t] = {1}
    /\ gets[t][<<1, "a">>] = 2
    /\ Cardinality(DOMAIN articles) >= 2


\* C13: when a refresh has published, an article whose directory was missing
\* and could not be created had none of its attachments requested, yet it
\* and every other listed article whose content was fetched is published;
\* an article whose directory was there or was created had every attachment
\* requested and its directory exists.
C13_MkdirFailureNonFatal ==
  \A t \in Threads :
    (pc[t] = "finish" /\ ~err[t]) =>
      /\ dfail[t] \subseteq (DOMAIN larticles[t]) \ cfail[t]
      /\ \A k \in (DOMAIN larticles[t]) \ cfail[t] :
           IF k \in dfail[t]
           THEN /\ \A name \in Names : gets[t][<<k, name>>] = 0
                /\ \A name \in Names : <<k, name>> \notin files
                /\ DOMAIN articles = DOMAIN larticles[t]
                /\ \A j \in (DOMAIN larticles[t]) \ cfail[t] : Published(t, j)
           ELSE /\ k \in dirs
                /\ \A name \in Names : gets[t][<<k, name>>] = Matched(k, name)

\* a refresh has published: the directory of article 1 could not be created,
\* that of article 2 was created and its attachment requested
C13_Witness ==
  \E t \in Threads :
    /\ pc[t] = "finish"
    /\ ~err[t]
    /\ dfail[t] = {1}
    /\ 1 \notin dirs
    /\ 2 \in dirs
    /\ gets[t][<<2, "b">>] = 1


\* the refresh of thread t is in flight: started, its indexes not yet swapped in
InFlight(t) == pc[t] \in {"load", "content", "set"}

\* C14: a read that begins while the refresh of another caller is in flight
\* goes straight to its return statement: it starts no refresh of its own,
\* so it makes no network call and waits for none.
C14_ReadsNotBlocked ==
  [][\A u \in Threads :
       (/\ started
        /\ pc[u] = "idle" /\ pc'[u] # "idle"
        /\ \E t \in Threads \ {u} : InFlight(t))
       => pc'[u] = "ret"]_vars


\* the articles readers can get through either index, with a content
Exposed ==
  {a \in Range(articles) \cup UNION {Range(articlesYear[y]) :
                                       y \in DOMAIN articlesYear} :
     a.LatestArticleContent # Nil}

\* token tok is the attribute href="/read/<id>", href in either case
IsReadHref(tok) ==
  tok.kind = "read" /\ tok.attr \in {"href", "HREF"} /\ tok.quote = "dq"

\* C15 as stated: in every body exposed to readers each href="/read/<id>" of
\* the fetched body has become href="/blog/<id>" with the same id, and no
\* /read/ is left in it anywhere
C15_NoReadLeft ==
  \A a \in Exposed :
    LET c == a.LatestArticleContent.Content IN
    /\ Len(c) = Len(Body(a.Id))
    /\ \A i \in DOMAIN c :
         /\ IsReadHref(Body(a.Id)[i]) => c[i] = BlogLink(Body(a.Id)[i].ref)
         /\ c[i].kind # "read"

\* C15 amended: in every body exposed to readers each double-quoted
\* href="/read/<id>" of the fetched body has become href="/blog/<id>" with
\* the same id and none is left; a /read/ anywhere else, as in a
\* single-quoted attribute, is left as fetched
C15_QuotedLinksRewritten ==
  \A a \in Exposed :
    LET c == a.LatestArticleContent.Content IN
    /\ Len(c) = Len(Body(a.Id))
    /\ \A i \in DOMAIN c :
         /\ IsReadHref(Body(a.Id)[i]) =>
              c[i] = Token("blog", "href", "dq", Body(a.Id)[i].ref, NoId)
         /\ ~IsReadHref(c[i])
         /\ (Body(a.Id)[i].kind = "read" /\ ~IsReadHref(Body(a.Id)[i])) =>
              c[i] = Body(a.Id)[i]

\* readers can get article 3, whose body has the link as href, as HREF and
\* in single quotes
C15_Witness ==
  \E a \in Exposed :
    /\ a.Id = 3
    /\ \E i, j, l \in DOMAIN Body(3) :
         /\ Body(3)[i].kind = "read" /\ Body(3)[i].attr = "href"
         /\ Body(3)[i].quote = "dq"
         /\ Body(3)[j].kind = "read" /\ Body(3)[j].attr = "HREF"
         /\ Body(3)[l].kind = "read" /\ Body(3)[l].quote = "sq"
         /\ a.LatestArticleContent.Content[l] = Body(3)[l]


\* token tok is the attribute href or src ="<remote>/api/v1/content/<name>"
IsRemoteRef(tok) ==
  tok.kind = "content" /\ tok.attr \in {"href", "HREF", "src", "SRC"}
  /\ tok.quote = "dq"

\* C16 as stated: in every body exposed to readers each href or src reference
\* to <remote>/api/v1/content/<name> of the fetched body has become
\* /static/blog/<id of the article>/<name>, and no reference to the remote
\* content endpoint is left in it anywhere
C16_NoRemoteLeft ==
  \A a \in Exposed :
    LET c == a.LatestArticleContent.Content IN
    /\ Len(c) = Len(Body(a.Id))
    /\ \A i \in DOMAIN c :
         /\ IsRemoteRef(Body(a.Id)[i]) =>
              c[i] = Token("static", Body(a.Id)[i].attr, "dq",
                           Body(a.Id)[i].ref, a.Id)
         /\ c[i].kind # "content"

\* C16 amended: in every body exposed to readers each double-quoted href or
\* src reference to <remote>/api/v1/content/<name> of the fetched body has
\* become /static/blog/<id of the article>/<name> and none is left; a
\* reference to the endpoint anywhere else, as in a single-quoted attribute,
\* is left as fetched
C16_QuotedRefsRewritten ==
  \A a \in Exposed :
    LET c == a.LatestArticleContent.Content IN
    /\ Len(c) = Len(Body(a.Id))
    /\ \A i \in DOMAIN c :
         /\ IsRemoteRef(Body(a.Id)[i]) =>
              c[i] = Token("static", Body(a.Id)[i].attr, "dq",
                           Body(a.Id)[i].ref, a.Id)
         /\ ~IsRemoteRef(c[i])
         /\ (Body(a.Id)[i].kind = "content" /\ ~IsRemoteRef(Body(a.Id)[i])) =>
              c[i] = Body(a.Id)[i]

\* readers can get article 1, both references of which are rewritten, and
\* article 3, whose body has a reference in single quotes
C16_Witness ==
  /\ \E a \in Exposed :
       /\ a.Id = 1
       /\ a.LatestArticleContent.Content[1] = StaticRef(1, "a")
       /\ a.LatestArticleContent.Content[3] = StaticRef(1, "a")
  /\ \E a \in Exposed :
       /\ a.Id = 3
       /\ \E i \in DOMAIN Body(3) :
            /\ Body(3)[i].kind = "content" /\ Body(3)[i].quote = "sq"
            /\ a.LatestArticleContent.Content[i] = Body(3)[i]


\* NewBlog has not returned: the indexes are empty until its refresh swaps
\* them in, and no read is served
Constructing ==
  boot.state = "new" =>
    /\ ~started
    /\ \A t \in Threads : pc[t] \notin {"ret", "done"}
    /\ \A t \in Threads : InFlight(t) => Indexes = NoIndexes
    /\ \E t \in Threads : InLoad(t) /\ refreshes[t] = 1

\* NewBlog has returned and no read has: its refresh has run, and when the
\* listing did not fail the id index holds the articles the source had when
\* NewBlog was called
Constructed ==
  boot.state = "fresh" =>
    /\ started
    /\ boot.ok => (1..boot.remote0) \subseteq DOMAIN articles
    /\ \A t \in Threads :
         pc[t] \in {"ret", "done"} =>
           /\ cmp[t] \in {"before", "at"}
           /\ refreshes[t] = 0
           /\ netcalls[t] = 0
           /\ pc[t] = "done" => view[t] = Indexes /\ ReadFrom(result[t], view[t])

\* the first read after NewBlog goes to its return statement when it comes
\* at or before the deadline NewBlog left, and refreshes when it comes after
FirstRead ==
  \A t \in Threads :
    (boot.state = "fresh" /\ pc[t] = "idle" /\ pc'[t] # "idle") =>
      /\ nextUpdate >= blogCacheTime
      /\ now =< nextUpdate => pc'[t] = "ret" /\ Indexes' = Indexes
      /\ pc'[t] = "load" => now > nextUpdate

\* C17: NewBlog starts from empty indexes and runs one refresh before it
\* returns; the first read after it, at or before the deadline that refresh
\* set, makes no network call and returns from the indexes of that refresh,
\* which hold the articles of the source when the listing did not fail; a
\* read starts the first refresh on demand only after that deadline.
C17_EagerStartup ==
  [](Constructing /\ Constructed) /\ [][FirstRead]_vars

\* the first read has returned both articles the source had at construction
C17_Witness ==
  \E t \in Threads :
    /\ boot.state = "fresh" /\ boot.ok /\ boot.remote0 = 2
    /\ pc[t] = "done"
    /\ result[t].kind = "GetArticles"
    /\ {1, 2} \subseteq DOMAIN view[t].ids


\* thread t is in the listing loop: the last page was not empty, no request
\* has failed, and the offset is within the source
Listing1 ==
  \A t \in Threads :
    pc[t] = "load" =>
      /\ count[t] > 0
      /\ ~err[t]
      /\ offset[t] =< remote
      /\ DOMAIN larticles[t] \subseteq 1..remote

\* one iteration of the listing loop of thread t
ListStep(t) ==
  (pc[t] = "load" /\ netcalls'[t] # netcalls[t]) =>
    /\ pc'[t] = "load" =>
         /\ count'[t] >= 1
         /\ offset'[t] = offset[t] + count'[t]
         /\ ~err'[t]
    /\ pc'[t] # "load" => (err'[t] \/ count'[t] = 0)
    /\ (pc'[t] # "load" /\ ~err'[t] /\ rstart[t] = remote) =>
         /\ offset'[t] = remote
         /\ DOMAIN larticles'[t] = 1..remote
         /\ \A k \in 1..remote : larticles'[t][k].Id = k

\* C18: each iteration of the listing loop that gets a page with items adds
\* the size of the page to the offset, which stays within the source; the
\* loop is left at the first empty page or the first error; and when it is
\* left without error against a source of N articles that did not change
\* during the listing, exactly the N articles are accumulated, keyed by id.
C18_PaginationComplete ==
  []Listing1 /\ [][\A t \in Threads : ListStep(t)]_vars

\* a listing of the four articles has ended with the third, empty page
C18_Witness ==
  \E t \in Threads :
    /\ pc[t] = "content"
    /\ remote = NumArticles
    /\ todo[t] = 1..NumArticles
    /\ offset[t] = NumArticles
    /\ count[t] = 0
    /\ netcalls[t] = 3


\* C19: every article with a non-empty Id that GetArticle has returned has a
\* LatestArticleContent that is not nil.
C19_ContentPresent ==
  \A t \in Threads :
    (pc[t] = "done" /\ result[t].kind = "GetArticle"
     /\ result[t].article.Id # NoId) =>
      result[t].article.LatestArticleContent # Nil

\* C20: when the refreshes that overlapped have all completed and none is
\* running, the year index holds each article of the id index exactly once,
\* under its year, and nothing else.
C20_OverlapConsistent ==
  (\A t \in Threads : ~InLoad(t)) => Consistent(articles, articlesYear)

====
